---- MODULE Spec2Model ----
(***************************************************************************)
(* A model of r3/logics.py: the dispatcher (prep, get_content), the state  *)
(* logger (add_state) and the media, text and blank selectors, over one    *)
(* Logic row, the Media catalog and the Temp side table.                   *)
(*                                                                         *)
(* Strings are sequences of one-character strings, so that str.split(),    *)
(* " ".join(), str(int), int(str) and splitlines() are modelled by what    *)
(* they do.  json.dumps of a two-field dict is injective; a payload is the *)
(* pair (type, data) it encodes.                                           *)
(***************************************************************************)
EXTENDS Integers, Sequences, FiniteSets, TLC

\* ------------------------------------------------------------- bounds
\* Primary keys of the Media catalog are 1..MaxId.
MaxId == 3
\* get_content is called with seq in 0..MaxSeq.
MaxSeq == 3
\* At most MaxDeletes catalog records are deleted in a behaviour.
MaxDeletes == 1

\* models.MAX_MEDIA_COUNT, imported at logics.py:9.  models.py sets the
\* value; the selectors only compare lengths with it, and the model takes a
\* small one so that the cap is reached.
MAX_MEDIA_COUNT == 2

Ids == 1..MaxId
Seqs == 0..MaxSeq

\* ------------------------------------------------------------ strings
SP == " "
NL == "\n"
STAR == <<"*">>
TXT == <<"t", "x", "t">>
JPG == <<"j", "p", "g">>
PNG == <<"p", "n", "g">>
NO_DATA == <<"N", "o", " ", "d", "a", "t", "a", " ", "t", "o", " ", "s", "h", "o", "w">>

Range(s) == {s[i] : i \in DOMAIN s}

\* Python's str.isspace for the characters that occur.
IsSpace(c) == c \in {SP, NL, "\t"}

RECURSIVE SplitAcc(_, _, _)
SplitAcc(s, cur, acc) ==
  IF s = << >>
  THEN IF cur = << >> THEN acc ELSE Append(acc, cur)
  ELSE IF IsSpace(Head(s))
       THEN SplitAcc(Tail(s), << >>, IF cur = << >> THEN acc ELSE Append(acc, cur))
       ELSE SplitAcc(Tail(s), Append(cur, Head(s)), acc)

\* str.split(): the maximal runs of non-whitespace characters, in order.
Split(s) == SplitAcc(s, << >>, << >>)

RECURSIVE Join(_)
\* " ".join(list)
Join(list) ==
  IF list = << >> THEN << >>
  ELSE IF Len(list) = 1 THEN Head(list)
  ELSE Head(list) \o <<SP>> \o Join(Tail(list))

RECURSIVE SplitLinesAcc(_, _, _)
SplitLinesAcc(s, cur, acc) ==
  IF s = << >>
  THEN IF cur = << >> THEN acc ELSE Append(acc, cur)
  ELSE IF Head(s) = NL
       THEN SplitLinesAcc(Tail(s), << >>, Append(acc, cur))
       ELSE SplitLinesAcc(Tail(s), Append(cur, Head(s)), acc)

\* str.splitlines(): the lines without their line breaks; a final line break
\* ends the last line and opens no empty one.
SplitLines(s) == SplitLinesAcc(s, << >>, << >>)

Digits == <<"0", "1", "2", "3", "4", "5", "6", "7", "8", "9">>

RECURSIVE Str(_)
\* str(n) of a non-negative int
Str(n) == IF n < 10 THEN <<Digits[n + 1]>> ELSE Str(n \div 10) \o <<Digits[(n % 10) + 1]>>

DigitValue(c) == CHOOSE d \in 0..9 : Digits[d + 1] = c

RECURSIVE IntAcc(_, _)
IntAcc(s, acc) == IF s = << >> THEN acc ELSE IntAcc(Tail(s), 10 * acc + DigitValue(Head(s)))

\* int(s) of a string of decimal digits
ParseInt(s) == IntAcc(s, 0)

RECURSIVE MapStr(_)
\* map(str, list) of a list of ints
MapStr(list) == IF list = << >> THEN << >> ELSE <<Str(Head(list))>> \o MapStr(Tail(list))

Take(list, k) == SubSeq(list, 1, k)

Min(a, b) == IF a <= b THEN a ELSE b

\* ------------------------------------------------------------ catalog
\* A Media row: its extension, its tag string and the bytes of its file
\* (decoded).  The catalog maps the primary keys in use to their rows.
MediaRows ==
  { [ext |-> JPG, tag |-> <<"a", SP, "b">>, content |-> << >>],
    [ext |-> PNG, tag |-> <<"c">>, content |-> << >>],
    [ext |-> TXT, tag |-> <<"a">>, content |-> <<"a", NL, "b", NL>>] }

\* Text files of one-word lines, of a line of two words, of an empty line.
TextRows ==
  { [ext |-> TXT, tag |-> <<"a">>, content |-> <<"a", NL, "b", NL>>],
    [ext |-> TXT, tag |-> <<"a">>, content |-> <<"c">>],
    [ext |-> TXT, tag |-> <<"a">>, content |-> <<"a", SP, "b", NL>>],
    [ext |-> TXT, tag |-> <<"a">>, content |-> <<NL>>] }

Catalogs == [Ids -> MediaRows]
TextCatalogs == [Ids -> TextRows]

\* media.content.url: the storage's locator of the row's file.
Url(id) == <<"/", "m", "/">> \o Str(id)

\* The filter settings a Logic is created with.
ExtFilters == {STAR, JPG}
TagFilters == {STAR, <<"a", SP>>}
Orders == {"shuffle", "sequential"}
Implements == {"media", "text", "blank", "other"}

\* The primary key of the one Logic row.
LogicPk == 1

RECURSIVE SortDesc(_)
\* order_by("id").reverse()
SortDesc(S) ==
  IF S = {} THEN << >>
  ELSE LET m == CHOOSE x \in S : \A y \in S : y <= x
       IN <<m>> \o SortDesc(S \ {m})

RECURSIVE SortAsc(_)
\* Media.objects.all(): the rows in primary-key order.
SortAsc(S) ==
  IF S = {} THEN << >>
  ELSE LET m == CHOOSE x \in S : \A y \in S : x <= y
       IN <<m>> \o SortAsc(S \ {m})

RECURSIVE Arrangements(_, _)
\* The sequences of k distinct members of S.
Arrangements(S, k) ==
  IF k = 0 THEN {<< >>}
  ELSE UNION {{<<x>> \o r : r \in Arrangements(S \ {x}, k - 1)} : x \in S}

\* random.shuffle(list) of a list of distinct entries: any order of them.
Shuffle(list) == Arrangements(Range(list), Len(list))

\* ------------------------------------------------------ media selector
\* logics.py:133: the extension test.
ExtMatched(media, ext_list) ==
  (STAR \in Range(ext_list)) \/ (media.ext \in Range(ext_list))

\* logics.py:137-150: the tag test of media_prep.
TagMatched(media, tag_list) ==
  \/ STAR \in Range(tag_list)
  \/ Range(Split(media.tag)) \cap Range(tag_list) # {}

\* A faulty variant: the loop body without the test of line 129.
Matched_with_txt(media, ext_list, tag_list) ==
  /\ ExtMatched(media, ext_list)
  /\ TagMatched(media, tag_list)

\* logics.py:129-153: whether the loop body accepts the row.
Matched(media, ext_list, tag_list) ==
  /\ media.ext # TXT
  /\ ExtMatched(media, ext_list)
  /\ TagMatched(media, tag_list)

RECURSIVE MediaLoop_cap_after(_, _, _, _, _)
\* A faulty variant: the cap tested with > for >=.
MediaLoop_cap_after(cat, media_all, ext_list, tag_list, media_list) ==
  IF media_all = << >> THEN media_list
  ELSE LET id == Head(media_all)
       IN IF Matched(cat[id], ext_list, tag_list)
          THEN IF Len(media_list) > MAX_MEDIA_COUNT
               THEN media_list
               ELSE MediaLoop_cap_after(cat, Tail(media_all), ext_list, tag_list,
                                        Append(media_list, id))
          ELSE MediaLoop_cap_after(cat, Tail(media_all), ext_list, tag_list,
                                   media_list)

RECURSIVE MediaLoop(_, _, _, _, _)
\* logics.py:126-160: the loop over media_all, with its break at the cap.
MediaLoop(cat, media_all, ext_list, tag_list, media_list) ==
  IF media_all = << >> THEN media_list
  ELSE LET id == Head(media_all)
       IN IF Matched(cat[id], ext_list, tag_list)
          THEN IF Len(media_list) >= MAX_MEDIA_COUNT
               THEN media_list
               ELSE MediaLoop(cat, Tail(media_all), ext_list, tag_list,
                              Append(media_list, id))
          ELSE MediaLoop(cat, Tail(media_all), ext_list, tag_list, media_list)

\* logics.py:119-160: the ids media_prep accepts, before the shuffle.
MediaSelect(cat, ext_list, tag_list) ==
  MediaLoop(cat, SortDesc(DOMAIN cat), ext_list, tag_list, << >>)

\* logics.py:162-164: the orders the accepted list may be left in.
MediaOrdered(media_list, media_order) ==
  IF media_order = "shuffle" THEN Shuffle(media_list) ELSE {media_list}

\* ------------------------------------------------------- text selector
\* logics.py:248-253: whether text_prep reads the row.
TextMatched(media, tag_list) ==
  /\ media.ext = TXT
  /\ Range(Split(media.tag)) \cap Range(tag_list) # {}

RECURSIVE TextLoop(_, _, _, _)
\* logics.py:245-259: the loop over media_all, extending text_list.
TextLoop(cat, media_all, tag_list, text_list) ==
  IF media_all = << >> THEN text_list
  ELSE LET media == cat[Head(media_all)]
       IN IF TextMatched(media, tag_list)
          THEN TextLoop(cat, Tail(media_all), tag_list,
                        text_list \o SplitLines(media.content))
          ELSE TextLoop(cat, Tail(media_all), tag_list, text_list)

\* logics.py:235-259: the flattened line list.
TextSelect(cat, tag_list) == TextLoop(cat, SortAsc(DOMAIN cat), tag_list, << >>)

\* logics.py:262: list(range(n))
RangeList(n) == [i \in 1..n |-> i - 1]

\* logics.py:269
MaxIndex(index_list) == Min(Len(index_list), MAX_MEDIA_COUNT)

\* logics.py:264-272: index_list[:max_index] after the shuffle, when one is
\* asked for: any max_index distinct entries in any order, or the first
\* max_index.
TextOrdered(index_list, max_index, media_order) ==
  IF media_order = "shuffle"
  THEN Arrangements(Range(index_list), max_index)
  ELSE {Take(index_list, max_index)}

\* logics.py:219, 281: TEXT_LOGIC_NAME.format(logic.pk)
TempName(pk) == <<"text-logic-cache:", pk>>

\* ------------------------------------------------------------ outcomes
\* What a call leaves its caller with: a payload (json.dumps of type and
\* data) or the exception it raised.
Returned(type, data) == [status |-> "ok", type |-> type, data |-> data]
Raised(exception) == [status |-> exception, type |-> << >>, data |-> << >>]
NoData == Returned(TXT, NO_DATA)

\* A faulty variant: the position clamped to the last entry instead of wrapped.
media_get_content_clamped(lg, cat, seq) ==
  LET media_list == Split(lg.media_list)
      media_count == Len(media_list)
  IN IF media_count = 0 THEN NoData
     ELSE LET media_index == Min(seq, media_count - 1)
              pk == ParseInt(media_list[media_index + 1])
          IN IF pk \in DOMAIN cat
             THEN Returned(cat[pk].ext, Url(pk))
             ELSE Raised("DoesNotExist")

\* logics.py:195-215.  Media.objects.get(pk=...) raises Media.DoesNotExist
\* for a key with no row (as line 288 expects of Temp.objects.get), so the
\* test of line 211 never fails and line 215 is not reached.
media_get_content(lg, cat, seq) ==
  LET media_list == Split(lg.media_list)
      media_count == Len(media_list)
  IN IF media_count = 0 THEN NoData
     ELSE LET media_index == seq % media_count
              pk == ParseInt(media_list[media_index + 1])
          IN IF pk \in DOMAIN cat
             THEN Returned(cat[pk].ext, Url(pk))
             ELSE Raised("DoesNotExist")

\* logics.py:335: text_list[int(index_list[seq % index_count])]
TextAt(text_list, index_list, seq) ==
  LET realIndex == ParseInt(index_list[(seq % Len(index_list)) + 1])
  IN IF realIndex < Len(text_list)
     THEN Returned(TXT, text_list[realIndex + 1])
     ELSE Raised("IndexError")

\* A faulty variant: the Temp row fetched before the test for an empty list.
text_get_content_temp_first(lg, tmp, seq) ==
  LET index_list == Split(lg.media_list)
      index_count == Len(index_list)
      name == TempName(lg.pk)
  IN IF name \notin DOMAIN tmp THEN Raised("DoesNotExist")
     ELSE IF index_count = 0 THEN NoData
     ELSE TextAt(Split(tmp[name]), index_list, seq)

\* logics.py:318-338
text_get_content(lg, tmp, seq) ==
  LET index_list == Split(lg.media_list)
      index_count == Len(index_list)
      name == TempName(lg.pk)
  IN IF index_count = 0 THEN NoData
     ELSE IF name \notin DOMAIN tmp THEN Raised("DoesNotExist")
     ELSE TextAt(Split(tmp[name]), index_list, seq)

\* logics.py:357-373
blank_get_content(seq) == Returned(TXT, << >>)

\* A faulty variant: an unknown implement served as blank.
get_content_default_blank(lg, cat, tmp, seq) ==
  IF lg.implement = "media" THEN media_get_content(lg, cat, seq)
  ELSE IF lg.implement = "text" THEN text_get_content(lg, tmp, seq)
  ELSE blank_get_content(seq)

\* logics.py:50-80
get_content(lg, cat, tmp, seq) ==
  IF lg.implement = "media" THEN media_get_content(lg, cat, seq)
  ELSE IF lg.implement = "text" THEN text_get_content(lg, tmp, seq)
  ELSE IF lg.implement = "blank" THEN blank_get_content(seq)
  ELSE Raised("Http404")

\* logics.py:83-95: add_state appends "<today> <message>\n"; an entry of the
\* log is its message (the clock is not modelled).
add_state(lg, message) == [lg EXCEPT !.state = Append(@, message)]

\* logics.py:24-27
Cleared(lg) == [lg EXCEPT !.media_list = << >>, !.media_count = 0, !.state = << >>]

\* A faulty variant: line 116 joining ext_list for tag_list.
media_prep_tag_from_ext(lg, cat) ==
  LET started == add_state(lg, "media_prep started.")
      ext_list == Split(lg.media_ext)
      tag_list == Split(lg.media_tag)
  IN { add_state([started EXCEPT !.media_ext = Join(ext_list),
                                 !.media_tag = Join(ext_list),
                                 !.media_list = Join(MapStr(media_list)),
                                 !.media_count = Len(media_list)],
                 "media_prep finished.")
       : media_list \in MediaOrdered(MediaSelect(cat, ext_list, tag_list),
                                     lg.media_order) }

\* logics.py:98-176: the rows media_prep may leave, one per order of the list.
media_prep(lg, cat) ==
  LET started == add_state(lg, "media_prep started.")
      ext_list == Split(lg.media_ext)
      tag_list == Split(lg.media_tag)
  IN { add_state([started EXCEPT !.media_ext = Join(ext_list),
                                 !.media_tag = Join(tag_list),
                                 !.media_list = Join(MapStr(media_list)),
                                 !.media_count = Len(media_list)],
                 "media_prep finished.")
       : media_list \in MediaOrdered(MediaSelect(cat, ext_list, tag_list),
                                     lg.media_order) }

\* A faulty variant: line 278 counting index_list for max_index.
text_prep_count_all(lg, cat) ==
  LET started == add_state(lg, "text_prep started.")
      tag_list == Split(lg.media_tag)
      text_list == TextSelect(cat, tag_list)
      index_list == RangeList(Len(text_list))
      max_index == MaxIndex(index_list)
  IN { add_state([started EXCEPT !.media_tag = Join(tag_list),
                                 !.media_list = Join(MapStr(cut)),
                                 !.media_count = Len(index_list)],
                 "text_prep finished.")
       : cut \in TextOrdered(index_list, max_index, lg.media_order) }

\* logics.py:222-299: the rows text_prep may leave.
text_prep(lg, cat) ==
  LET started == add_state(lg, "text_prep started.")
      tag_list == Split(lg.media_tag)
      text_list == TextSelect(cat, tag_list)
      index_list == RangeList(Len(text_list))
      max_index == MaxIndex(index_list)
  IN { add_state([started EXCEPT !.media_tag = Join(tag_list),
                                 !.media_list = Join(MapStr(cut)),
                                 !.media_count = max_index],
                 "text_prep finished.")
       : cut \in TextOrdered(index_list, max_index, lg.media_order) }

\* logics.py:280-296: the Temp row of the Logic, created when absent, holds
\* the joined text_list.
TempSaved(tmp, lg, text_list) ==
  [n \in DOMAIN tmp \cup {TempName(lg.pk)} |->
     IF n = TempName(lg.pk) THEN Join(text_list) ELSE tmp[n]]

\* logics.py:341-354
blank_prep(lg) ==
  add_state(add_state(lg, "blank_prep started."), "blank_prep finished.")

\* ------------------------------------------------------------- state
VARIABLES
  catalog,   \* the Media table
  logic,     \* the Logic row, as persisted
  temp,      \* the Temp table: name -> content
  result,    \* the last call: its operation, its seq and its outcome
  built,     \* history: the text_list the last text_prep built
  streak,    \* history: the preps that returned since the catalog last
             \* changed, counted up to two
  deletes,   \* history: the catalog rows deleted so far
  prep_pc,   \* the prep that runs beside the readers: the writes it has made
  prep_plan, \* what the tables hold after each of that prep's writes
  getters,   \* the get_content calls that run beside it
  pre        \* history: the Logic row and the Temp table before that prep

race == <<prep_pc, prep_plan, getters, pre>>
vars == <<catalog, logic, temp, result, built, streak, deletes,
          prep_pc, prep_plan, getters, pre>>

NoCall == [op |-> "none", seq |-> 0] @@ Raised("none")
Call(op, seq, outcome) == [op |-> op, seq |-> seq] @@ outcome

\* A Logic as created: nothing selected yet.  A selector that does not read
\* a filter field is created with that field's default.
NewLogics ==
  { [pk |-> LogicPk, implement |-> i, media_ext |-> e, media_tag |-> t,
     media_order |-> o, media_list |-> << >>, media_count |-> 0, state |-> << >>]
    : i \in Implements, e \in ExtFilters, t \in TagFilters, o \in Orders }

\* The get_content calls of the requests served beside a prep; none where
\* calls are served one at a time.
Getters == {"g1", "g2"}
IdleGetter ==
  [pc |-> "idle", seq |-> 0, row |-> << >>, disturbed |-> FALSE,
   alone |-> Raised("none"), outcome |-> Raised("none")]
NoRace ==
  /\ prep_pc = 0
  /\ prep_plan = << >>
  /\ getters = [g \in Getters |-> IdleGetter]
  /\ pre = << >>

IsCreated(lg) ==
  /\ lg.implement # "media" => lg.media_ext = STAR
  /\ lg.implement \in {"blank", "other"} =>
        lg.media_tag = STAR /\ lg.media_order = "sequential"

Init ==
  /\ catalog \in Catalogs
  /\ logic \in {lg \in NewLogics : IsCreated(lg)}
  /\ temp = << >>
  /\ result = NoCall
  /\ built = << >>
  /\ streak = 0
  /\ deletes = 0
  /\ NoRace

\* logics.py:12-47: prep(logic), the whole handler.
Prep ==
  /\ UNCHANGED <<catalog, deletes, race>>
  /\ IF logic.implement = "media"
     THEN /\ logic' \in media_prep(Cleared(logic), catalog)
          /\ result' = Call("prep", 0, Returned(<< >>, << >>))
          /\ streak' = Min(streak + 1, 2)
          /\ UNCHANGED <<temp, built>>
     ELSE IF logic.implement = "text"
     THEN /\ logic' \in text_prep(Cleared(logic), catalog)
          /\ built' = TextSelect(catalog, Split(logic.media_tag))
          /\ temp' = TempSaved(temp, logic, built')
          /\ result' = Call("prep", 0, Returned(<< >>, << >>))
          /\ streak' = Min(streak + 1, 2)
     ELSE IF logic.implement = "blank"
     THEN /\ logic' = blank_prep(Cleared(logic))
          /\ result' = Call("prep", 0, Returned(<< >>, << >>))
          /\ streak' = Min(streak + 1, 2)
          /\ UNCHANGED <<temp, built>>
     ELSE /\ logic' = Cleared(logic)
          /\ result' = Call("prep", 0, Raised("Http404"))
          /\ streak' = 0
          /\ UNCHANGED <<temp, built>>

\* logics.py:50-80: get_content(trial, seq) of a trial of the Logic.
GetContent ==
  /\ \E seq \in Seqs :
       result' = Call("get", seq, get_content(logic, catalog, temp, seq))
  /\ UNCHANGED <<catalog, logic, temp, built, streak, deletes, race>>

\* A Media row is deleted (by the surrounding application).
DeleteMedia ==
  /\ deletes < MaxDeletes
  /\ \E id \in DOMAIN catalog :
       catalog' = [i \in DOMAIN catalog \ {id} |-> catalog[i]]
  /\ deletes' = deletes + 1
  /\ streak' = 0
  /\ result' = NoCall
  /\ UNCHANGED <<logic, temp, built, race>>

\* The Temp row of the Logic is purged (by the surrounding application).
PurgeTemp ==
  /\ TempName(logic.pk) \in DOMAIN temp
  /\ temp' = [n \in DOMAIN temp \ {TempName(logic.pk)} |-> temp[n]]
  /\ result' = NoCall
  /\ UNCHANGED <<catalog, logic, built, streak, deletes, race>>

Next == Prep \/ GetContent \/ DeleteMedia \/ PurgeTemp

Spec == Init /\ [][Next]_vars

\* A text Logic over text files of any lines.
InitText ==
  /\ catalog \in TextCatalogs
  /\ logic \in {lg \in NewLogics : IsCreated(lg) /\ lg.implement = "text"}
  /\ temp = << >>
  /\ result = NoCall
  /\ built = << >>
  /\ streak = 0
  /\ deletes = 0
  /\ NoRace

SpecText == InitText /\ [][Next]_vars

\* -------------------------------------------------- calls side by side
\* Requests served by different workers share the Logic row, the Media
\* table and the Temp table and nothing else; a step is one access to them.

\* The rows of the catalogs a prep runs beside readers over.
RaceRows ==
  { [ext |-> JPG, tag |-> <<"a", SP, "b">>, content |-> << >>],
    [ext |-> TXT, tag |-> <<"a">>, content |-> <<"a", NL, "b", NL>>],
    [ext |-> TXT, tag |-> <<"a">>, content |-> <<"c">>] }

\* The seq of a call beside a prep: one for each position of a full list.
RaceSeqs == 0..(MAX_MEDIA_COUNT - 1)

\* The catalog as it is, after the deletion of at most one row.
Changed(cat) ==
  {cat} \cup {[i \in DOMAIN cat \ {id} |-> cat[i]] : id \in DOMAIN cat}

RaceLogics ==
  { lg \in NewLogics :
      /\ IsCreated(lg)
      /\ lg.implement \in {"media", "text"}
      /\ lg.media_ext = STAR
      /\ lg.media_tag = <<"a", SP>>
      /\ lg.media_order = "sequential" }

\* The Logic has been prepared by an earlier prep, over the catalog of
\* then; the catalog may have changed since.
InitRace ==
  /\ \E cat0 \in [Ids -> RaceRows], lg0 \in RaceLogics :
       /\ catalog \in Changed(cat0)
       /\ built = IF lg0.implement = "text"
                  THEN TextSelect(cat0, Split(lg0.media_tag)) ELSE << >>
       /\ temp = IF lg0.implement = "text"
                 THEN TempSaved(<< >>, lg0, built) ELSE << >>
       /\ logic \in IF lg0.implement = "text"
                     THEN text_prep(Cleared(lg0), cat0)
                     ELSE media_prep(Cleared(lg0), cat0)
  /\ result = NoCall
  /\ streak = 0
  /\ deletes = 0
  /\ prep_pc = 0
  /\ prep_plan = << >>
  /\ getters = [g \in Getters |-> IdleGetter]
  /\ pre = [logic |-> logic, temp |-> temp]

\* Every prep step writes: the get_content calls between their two reads
\* have had a write fall between them.
Disturbed ==
  [g \in Getters |->
     IF getters[g].pc = "read" THEN [getters[g] EXCEPT !.disturbed = TRUE]
     ELSE getters[g]]

StartedMessage(lg) ==
  IF lg.implement = "media" THEN "media_prep started." ELSE "text_prep started."

Saved(lg, tmp) == [logic |-> lg, temp |-> tmp]

\* A faulty variant: text_prep saving the Temp row after add_state(... finished.).
PrepWrites_temp_last(lg, cat, tmp) ==
  LET cleared == Cleared(lg)
      started == add_state(cleared, StartedMessage(lg))
      saved == TempSaved(tmp, lg, TextSelect(cat, Split(lg.media_tag)))
  IN IF lg.implement = "media"
     THEN { <<Saved(cleared, tmp), Saved(started, tmp), Saved(final, tmp),
              Saved(final, tmp)>> : final \in media_prep(cleared, cat) }
     ELSE { <<Saved(cleared, tmp), Saved(started, tmp), Saved(final, tmp),
              Saved(final, saved), Saved(final, saved)>>
            : final \in text_prep(cleared, cat) }

\* logics.py:24-47 with 98-176 or 222-299: what the tables hold after each
\* write of a prep, in the order of the writes: the save of line 30, the
\* save of add_state(... started.), in text mode the save of the Temp row
\* (296), the save of add_state(... finished.) and the save of line 47.
\* One sequence for each order a shuffle may leave.
PrepWrites(lg, cat, tmp) ==
  LET cleared == Cleared(lg)
      started == add_state(cleared, StartedMessage(lg))
      saved == TempSaved(tmp, lg, TextSelect(cat, Split(lg.media_tag)))
  IN IF lg.implement = "media"
     THEN { <<Saved(cleared, tmp), Saved(started, tmp), Saved(final, tmp),
              Saved(final, tmp)>> : final \in media_prep(cleared, cat) }
     ELSE { <<Saved(cleared, tmp), Saved(started, tmp), Saved(started, saved),
              Saved(final, saved), Saved(final, saved)>>
            : final \in text_prep(cleared, cat) }

\* prep(logic) is called and makes its first write.
PrepSaveFirst ==
  /\ prep_pc = 0
  /\ prep_plan' \in PrepWrites(logic, catalog, temp)
  /\ prep_pc' = 1
  /\ logic' = prep_plan'[1].logic
  /\ temp' = prep_plan'[1].temp
  /\ built' = IF logic.implement = "text"
               THEN TextSelect(catalog, Split(logic.media_tag)) ELSE built
  /\ getters' = Disturbed
  /\ UNCHANGED <<catalog, result, streak, deletes, pre>>

\* prep makes its next write.
PrepSaveNext ==
  /\ prep_pc > 0
  /\ prep_pc < Len(prep_plan)
  /\ prep_pc' = prep_pc + 1
  /\ logic' = prep_plan[prep_pc'].logic
  /\ temp' = prep_plan[prep_pc'].temp
  /\ getters' = Disturbed
  /\ UNCHANGED <<catalog, result, built, streak, deletes, prep_plan, pre>>

\* logics.py:67, 196, 319: trial.logic, the read of the Logic row.
GetReadLogic(g) ==
  /\ getters[g].pc = "idle"
  /\ \E seq \in RaceSeqs :
       getters' = [getters EXCEPT ![g] =
         [pc |-> "read", seq |-> seq, row |-> logic, disturbed |-> FALSE,
          alone |-> get_content(logic, catalog, temp, seq),
          outcome |-> Raised("none")]]
  /\ UNCHANGED <<catalog, logic, temp, result, built, streak, deletes,
                 prep_pc, prep_plan, pre>>

\* logics.py:199-215, 322-338: the rest of get_content on the row read,
\* with its read of the Media row or of the Temp row.
GetReadRecord(g) ==
  /\ getters[g].pc = "read"
  /\ getters' = [getters EXCEPT ![g] =
       [@ EXCEPT !.pc = "done", !.row = << >>,
                 !.outcome = get_content(getters[g].row, catalog, temp,
                                         getters[g].seq)]]
  /\ UNCHANGED <<catalog, logic, temp, result, built, streak, deletes,
                 prep_pc, prep_plan, pre>>

NextRace ==
  \/ PrepSaveFirst
  \/ PrepSaveNext
  \/ \E g \in Getters : GetReadLogic(g)
  \/ \E g \in Getters : GetReadRecord(g)

SpecRace == InitRace /\ [][NextRace]_vars

\* ------------------------------------------------------------- claims
PrepReturned == result.op = "prep" /\ result.status = "ok"
Outcome == [status |-> result.status, type |-> result.type, data |-> result.data]
Entries == Split(logic.media_list)
EntryAt(seq) == ParseInt(Entries[(seq % Len(Entries)) + 1])
Known == {"media", "text", "blank"}
\* The log of a prep that ran to its end.
Prepared == Len(logic.state) = 2

\* The rows the media filter of the Logic asks for, in the words of the
\* specification.
Selectable ==
  LET exts == Range(Split(logic.media_ext))
      tags == Range(Split(logic.media_tag))
  IN { id \in DOMAIN catalog :
         /\ catalog[id].ext # TXT
         /\ STAR \in exts \/ catalog[id].ext \in exts
         /\ STAR \in tags \/ \E t \in Range(Split(catalog[id].tag)) : t \in tags }

\* The txt rows whose tags meet the tag filter of the Logic.
Readable ==
  { id \in DOMAIN catalog :
      /\ catalog[id].ext = TXT
      /\ \E t \in Range(Split(catalog[id].tag)) : t \in Range(Split(logic.media_tag)) }

\* C1: when prep has returned normally (implement media, text or blank),
\* the persisted media_count is the number of whitespace-separated entries
\* of the persisted media_list.
C1_CountIsListLength ==
  PrepReturned =>
    /\ logic.implement \in Known
    /\ logic.media_count = Len(Split(logic.media_list))

\* A text prep over more lines than the cap has returned.
C1_Witness ==
  /\ PrepReturned
  /\ logic.implement = "text"
  /\ Len(built) > MAX_MEDIA_COUNT
  /\ logic.media_count = MAX_MEDIA_COUNT

\* C2: the list prep leaves has at most MAX_MEDIA_COUNT entries, in media
\* and in text mode, and exactly MAX_MEDIA_COUNT in media mode when more
\* rows than that match the filter.
C2_ListIsCapped ==
  PrepReturned =>
    /\ Len(Entries) <= MAX_MEDIA_COUNT
    /\ (logic.implement = "media" /\ Cardinality(Selectable) > MAX_MEDIA_COUNT)
         => Len(Entries) = MAX_MEDIA_COUNT

\* A media prep over more matching rows than the cap has returned.
C2_Witness ==
  /\ PrepReturned
  /\ logic.implement = "media"
  /\ Cardinality(Selectable) > MAX_MEDIA_COUNT
  /\ Len(Entries) = MAX_MEDIA_COUNT

ExampleCatalog ==
  (1 :> [ext |-> JPG, tag |-> <<"a", SP, "b">>, content |-> << >>])
  @@ (2 :> [ext |-> TXT, tag |-> <<"a">>, content |-> <<"a", NL, "b", NL>>])
  @@ (3 :> [ext |-> PNG, tag |-> <<"c">>, content |-> << >>])

C3_Example ==
  /\ PrepReturned
  /\ logic.implement = "media"
  /\ catalog = ExampleCatalog
  /\ logic.media_ext = STAR
  /\ logic.media_tag = <<"a">>
  /\ logic.media_order = "sequential"

\* C3: with fewer matching rows than MAX_MEDIA_COUNT, the ids media_prep
\* leaves are those of the rows that are not txt, whose extension the
\* extension filter holds (or it holds "*") and one of whose tags the tag
\* filter holds (or it holds "*"); the example catalog with ext "*", tag "a"
\* and sequential order gives media_list "1" and media_count 1.
C3_SelectsByFilter ==
  /\ (PrepReturned /\ logic.implement = "media"
        /\ Cardinality(Selectable) < MAX_MEDIA_COUNT)
      => {ParseInt(e) : e \in Range(Entries)} = Selectable
  /\ C3_Example => logic.media_list = <<"1">> /\ logic.media_count = 1

\* The example has been prepared and gave "1".
C3_Witness == C3_Example /\ logic.media_list = <<"1">> /\ logic.media_count = 1

\* The list is one that a text_prep wrote beside the Temp row now stored.
TextServed ==
  /\ result.op = "get"
  /\ logic.implement = "text"
  /\ Entries # << >>
  /\ TempName(logic.pk) \in DOMAIN temp

\* C4: after a text prep, media_list holds distinct indices that are valid
\* positions of the Temp content as get_content splits it, and get_content
\* returns, for every seq, the line of the text_list prep built at the
\* index at position seq mod count.
C4_RoundTrip ==
  TextServed =>
    /\ \A i, j \in DOMAIN Entries : i # j => Entries[i] # Entries[j]
    /\ \A e \in Range(Entries) :
         ParseInt(e) < Len(Split(temp[TempName(logic.pk)]))
    /\ Outcome = Returned(TXT, built[EntryAt(result.seq) + 1])

\* A step is a second prep over the catalog and the filters of the first.
\* (GetContent, DeleteMedia and PurgeTemp leave another result.)
PrepAgain == streak >= 1 /\ result'.op = "prep"
SameCount == logic'.media_count = logic.media_count
SameEntries == Range(Split(logic'.media_list)) = Range(Split(logic.media_list))
SameOrder == logic.media_order # "shuffle" => logic'.media_list = logic.media_list

\* C5 as claimed: a second prep over an unchanged catalog leaves the same
\* media_count and the same set of entries, in media and in text mode and
\* for both orders, and the same list unless the order is "shuffle".
C5_SameSelection ==
  [][PrepAgain => SameCount /\ SameEntries /\ SameOrder]_vars

\* The shuffle of text_prep comes before its cut.
CutAfterShuffle ==
  /\ logic.implement = "text"
  /\ logic.media_order = "shuffle"
  /\ Len(built) > MAX_MEDIA_COUNT

\* C5 as amended: a second prep over an unchanged catalog leaves the same
\* media_count, the same list unless the order is "shuffle", and the same
\* set of entries unless it is a shuffled text prep over more lines than
\* MAX_MEDIA_COUNT.
C5_SameSelectionUnlessCut ==
  [][PrepAgain => SameCount /\ SameOrder /\ (~CutAfterShuffle => SameEntries)]_vars

\* A second prep in succession has returned, over more lines than the cap.
C5_Witness ==
  /\ PrepReturned
  /\ streak = 2
  /\ CutAfterShuffle
  /\ logic.media_count = MAX_MEDIA_COUNT

\* Every id of the list has its row.
AllResolve == \A e \in Range(Entries) : ParseInt(e) \in DOMAIN catalog

\* C6: in media mode, with a non-empty list whose ids all resolve,
\* get_content returns the row of the entry at position seq mod count, and
\* so with seq = count + k what it returns with seq = k.
C6_Wraparound ==
  (logic.implement = "media" /\ Entries # << >> /\ AllResolve) =>
    /\ \A k \in Seqs :
         media_get_content(logic, catalog, Len(Entries) + k)
           = media_get_content(logic, catalog, k)
    /\ result.op = "get" =>
         /\ Outcome = Returned(catalog[EntryAt(result.seq)].ext,
                               Url(EntryAt(result.seq)))
         /\ result.seq >= Len(Entries) =>
              Outcome = media_get_content(logic, catalog, result.seq - Len(Entries))

\* get_content with seq = count + 1 has returned the second entry's row.
C6_Witness ==
  /\ result.op = "get"
  /\ logic.implement = "media"
  /\ Len(Entries) = 2
  /\ AllResolve
  /\ result.seq = Len(Entries) + 1
  /\ result.status = "ok"
  /\ result.data = Url(ParseInt(Entries[2]))

\* C7: with an implement that is not media, text or blank, prep and
\* get_content raise Http404 and return no payload, whatever seq is.
C7_UnknownImplement ==
  logic.implement \notin Known =>
    /\ result.op \in {"prep", "get"} => Outcome = Raised("Http404")
    /\ \A seq \in Seqs : get_content(logic, catalog, temp, seq) = Raised("Http404")

\* get_content of an unknown implement has raised Http404.
C7_Witness ==
  /\ logic.implement \notin Known
  /\ result.op = "get"
  /\ result.seq = MaxSeq
  /\ result.status = "Http404"

\* get_content needed a row that is gone.
NeedsMissing ==
  /\ result.op = "get"
  /\ Entries # << >>
  /\ \/ logic.implement = "media" /\ EntryAt(result.seq) \notin DOMAIN catalog
     \/ logic.implement = "text" /\ TempName(logic.pk) \notin DOMAIN temp

\* C8: a get_content that needs a Media row or a Temp row that is gone
\* raises Http404, as an unknown implement does.
C8_MissingIsHttp404 == NeedsMissing => Outcome = Raised("Http404")

\* Nothing matches the filter of the Logic.
NothingSelected ==
  \/ logic.implement = "media" /\ Selectable = {}
  \/ logic.implement = "text" /\ Readable = {}

\* C9: a prep that selects nothing leaves media_list "" and media_count 0,
\* and get_content on an empty list returns the "No data to show" payload
\* for every seq, in text mode also with no Temp row.
C9_EmptySelection ==
  /\ (PrepReturned /\ NothingSelected)
       => logic.media_list = << >> /\ logic.media_count = 0
  /\ (logic.implement \in {"media", "text"} /\ Prepared /\ logic.media_list = << >>)
       => /\ \A seq \in Seqs : get_content(logic, catalog, temp, seq) = NoData
          /\ result.op = "get" => Outcome = NoData

\* A text Logic prepared to nothing, its Temp row purged, has served the
\* "No data to show" payload.
C9_Witness ==
  /\ logic.implement = "text"
  /\ Prepared
  /\ Readable = {}
  /\ logic.media_list = << >>
  /\ TempName(logic.pk) \notin DOMAIN temp
  /\ result.op = "get"
  /\ Outcome = NoData

\* What get_content returns from the tables as they were before the prep.
PreAlone(seq) == get_content(pre.logic, catalog, pre.temp, seq)
\* The tables as the prep leaves them.
Last == prep_plan[Len(prep_plan)]
\* What get_content returns from the tables as the prep leaves them.
PostAlone(seq) == get_content(Last.logic, catalog, Last.temp, seq)
\* What text_get_content returns from the index list of before the prep
\* and the Temp row the prep writes.
Paired(seq) == text_get_content(pre.logic, Last.temp, seq)

\* What a get_content beside the prep may return, by what the prep has
\* written so far.
Allowed(seq) ==
  {PreAlone(seq)}
  \cup (IF prep_pc > 0 THEN {NoData} ELSE {})
  \cup (IF prep_pc > 0 /\ logic = Last.logic /\ temp = Last.temp
        THEN {PostAlone(seq)} ELSE {})
  \cup (IF prep_pc > 0 /\ logic.implement = "text" /\ temp = Last.temp
        THEN {Paired(seq)} ELSE {})

Done(g) == getters[g].pc = "done"

\* C10: a get_content that runs beside one prep of its Logic returns the
\* result of before the prep, the result of after it, the "No data to show"
\* payload, or in text mode what the index list of before the prep gives
\* with the Temp row the prep wrote; a get_content with no write between
\* its two reads, as when only get_content calls run, returns what it
\* returns alone.
C10_TornOnlyByPrep ==
  \A g \in Getters :
    Done(g) =>
      /\ getters[g].outcome \in Allowed(getters[g].seq)
      /\ ~getters[g].disturbed => getters[g].outcome = getters[g].alone

\* Beside one text prep whose results before and after are both not empty,
\* one get_content has returned "No data to show" and another a result
\* that is neither that of before nor that of after the prep.
C10_Witness ==
  /\ logic.implement = "text"
  /\ prep_pc = Len(prep_plan)
  /\ prep_pc > 0
  /\ pre.logic.media_list # << >>
  /\ Last.logic.media_list # << >>
  /\ \E g1, g2 \in Getters :
       /\ Done(g1) /\ Done(g2)
       /\ getters[g1].outcome = NoData
       /\ PreAlone(getters[g1].seq).status = "ok"
       /\ PostAlone(getters[g1].seq).status = "ok"
       /\ getters[g2].outcome \notin
            {NoData, PreAlone(getters[g2].seq), PostAlone(getters[g2].seq)}

====
